---- MODULE Spec2Model ----
(***************************************************************************)
(* Model of the shelf-monitoring repository:                               *)
(*   iot_mqtt.py         the MQTT ingester (on_message, the two handlers,  *)
(*                       analyze_shelf_data, save_to_database, queries)    *)
(*   iot_firebase_pb.py  the inventory patcher (module-level sign-in and   *)
(*                       fetch, search_and_update)                         *)
(*                                                                         *)
(* Distances are integers counting 1/Scale cm, so 30.0 cm is 30 * Scale.   *)
(* A fill percentage is an exact rational [num, den].  The wall clock      *)
(* counts 1/TicksPerSecond s; strftime truncates it to whole seconds.      *)
(* A JSON value is a record [t, s, n]: t is its type, s its text when a    *)
(* string, n its number when a number or a boolean.                        *)
(***************************************************************************)
EXTENDS Integers, Sequences, FiniteSets, TLC

VARIABLES
    pc,           \* position of the running script
    remote,       \* the remote "product" collection, in key order
    products,     \* iot_firebase_pb.products: the snapshot fetched at import
    remote_log,   \* kinds of request the running script has sent to the remote store
    call,         \* arguments of the latest search_and_update call
    sensor_data,  \* the rows of table sensor_data, in rowid order
    clock,        \* the wall clock
    last,         \* the latest message given to on_message and what the callback did
    rows,         \* what query_latest_data returned, until the next message
    in_shelf,     \* analyze_shelf_data, called alone: its arguments ...
    in_dist,
    result        \* ... and what it returned

vars == <<pc, remote, products, remote_log, call, sensor_data, clock, last, rows,
          in_shelf, in_dist, result>>

(* ------------------------------ bounds -------------------------------- *)
Scale == 2
MaxDist == 33
MaxProducts == 2
MaxRows == 2
MaxClock == 2
TicksPerSecond == 2
MaxDelay == 1
MinDist == 3

(* ---------------------------- JSON values ------------------------------ *)
Val(t, s, n) == [t |-> t, s |-> s, n |-> n]
Missing == Val("missing", "", 0)
Null == Val("null", "", 0)
Str(s) == Val("str", s, 0)
Num(n) == Val("num", "", n)
Bool(b) == Val("bool", "", IF b THEN 1 ELSE 0)
List == Val("list", "", 0)
Cm(c) == Num(c * Scale)

\* dict.get(key, default)
Get(v, default) == IF v.t = "missing" THEN default ELSE v

\* the float a Python number or bool takes part in arithmetic as
NumOf(v) == IF v.t = "bool" THEN v.n * Scale ELSE v.n

(* ------------------------------ rationals ------------------------------ *)
Rat(n, d) == [num |-> n, den |-> d]
RatEq(a, b) == a.num * b.den = b.num * a.den
RatLt(a, b) == a.num * b.den < b.num * a.den
RatMin(a, b) == IF RatLt(b, a) THEN b ELSE a
RatMax(a, b) == IF RatLt(a, b) THEN b ELSE a

(* ------------------- iot_mqtt.py: the judging logic -------------------- *)
SHELF_CONFIG == [s \in {"A1", "A2", "B1"} |-> IF s = "B1" THEN 20 * Scale ELSE 30 * Scale]

\* `shelf_id not in SHELF_CONFIG` raises TypeError for an unhashable key
Unhashable(v) == v.t = "list"
InShelfConfig(v) == v.t = "str" /\ v.s \in DOMAIN SHELF_CONFIG

Analysis(raised, occupied, fill_percent) ==
    [raised |-> raised, occupied |-> occupied, fill_percent |-> fill_percent]

\* mutant: the ratio is not scaled to a percentage
OccupiedFill_NoPercent(occupied_space, max_distance) ==
    RatMax(Rat(0, 1), RatMin(Rat(100, 1), Rat(occupied_space, max_distance)))

\* the clamped fill of an occupied shelf (lines 105-108)
OccupiedFill(occupied_space, max_distance) ==
    RatMax(Rat(0, 1), RatMin(Rat(100, 1), Rat(occupied_space * 100, max_distance)))

\* mutant: the margin itself counts as occupied
AboveMargin_Inclusive(occupied_space) == occupied_space >= 2 * Scale

\* occupied_space > 2.0 (line 103)
AboveMargin(occupied_space) == occupied_space > 2 * Scale

analyze_shelf_data(shelf_id, distance_cm) ==
    IF Unhashable(shelf_id) THEN Analysis(TRUE, FALSE, Rat(0, 1))
    ELSE IF ~InShelfConfig(shelf_id) THEN Analysis(FALSE, FALSE, Rat(0, 1))
    ELSE LET max_distance == SHELF_CONFIG[shelf_id.s]
             occupied_space == max_distance - NumOf(distance_cm)
         IN  IF AboveMargin(occupied_space)
             THEN Analysis(FALSE, TRUE, OccupiedFill(occupied_space, max_distance))
             ELSE Analysis(FALSE, FALSE, Rat(0, 1))

(* -------------- iot_firebase_pb.py: the inventory patcher -------------- *)
\* Firebase push keys: non-empty strings, returned in key order
PushKey(i) == "-K" \o ToString(i)
RackIds == {Str("A3"), Str("2"), Num(2)}
Numbers == {0, 120}
Product(key, rack_id, number) ==
    [key |-> key, rack_id |-> rack_id, number |-> number, name |-> "noodled"]
Collections ==
    UNION {{[i \in 1..n |-> Product(PushKey(i), r[i], q[i])] :
                r \in [1..n -> RackIds], q \in [1..n -> Numbers]} : n \in 0..MaxProducts}

\* truth value of `if matching_ids:` for a key (a string) or the False of line 65
Truthy(v) == IF v.t = "str" THEN v.s /= "" ELSE v.n /= 0

\* mutant: the scan keeps the last match instead of returning the first
get_product_ids_by_rack_id_last(fetched, target_rack_id) ==
    LET hits == {i \in 1..Len(fetched) : target_rack_id = fetched[i].rack_id}
    IN  IF hits = {} THEN Bool(FALSE)
        ELSE Str(fetched[CHOOSE i \in hits : \A j \in hits : i >= j].key)

\* lines 58-65 over the fetched collection: the key of the first product whose
\* rack_id equals the target, or False
get_product_ids_by_rack_id(fetched, target_rack_id) ==
    LET hits == {i \in 1..Len(fetched) : target_rack_id = fetched[i].rack_id}
    IN  IF hits = {} THEN Bool(FALSE)
        ELSE Str(fetched[CHOOSE i \in hits : \A j \in hits : i <= j].key)

\* lines 45-49: update({"number": number}) on product/<key>
update_product_detail(store, key_to_update, number) ==
    [i \in 1..Len(store) |->
        IF store[i].key = key_to_update THEN [store[i] EXCEPT !.number = number]
        ELSE store[i]]

\* lines 69-72: the store afterwards and the requests sent
search_and_update(store, fetched, rack_id_to_search, product_number) ==
    LET matching_ids == get_product_ids_by_rack_id(fetched, rack_id_to_search)
    IN  IF Truthy(matching_ids)
        THEN [remote |-> update_product_detail(store, matching_ids.s, product_number),
              sent |-> {"update"}]
        ELSE [remote |-> store, sent |-> {}]

\* lines 15-38 and 74: what importing (or running) the module does
ModuleLevel(nextpc) ==
    LET done == search_and_update(remote, remote, Str("A3"), 120)
    IN  /\ products' = remote
        /\ remote' = done.remote
        /\ remote_log' = remote_log \cup {"auth", "get"} \cup done.sent
        /\ call' = [rack_id |-> Str("A3"), number |-> 120]
        /\ pc' = nextpc

\* python iot_firebase_pb.py
RunPatcher ==
    /\ pc = "patcher"
    /\ ModuleLevel("patched")
    /\ UNCHANGED <<sensor_data, clock, last, rows, in_shelf, in_dist, result>>

\* a later call of search_and_update by whoever holds the module
SearchArgs == RackIds \cup {Str("B9")}
SearchAndUpdate ==
    /\ pc = "patched"
    /\ \E rack \in SearchArgs, n \in Numbers \cup {5} :
          LET done == search_and_update(remote, products, rack, n)
          IN  /\ remote' = done.remote
              /\ remote_log' = remote_log \cup done.sent
              /\ call' = [rack_id |-> rack, number |-> n]
    /\ UNCHANGED <<pc, products, sensor_data, clock, last, rows, in_shelf, in_dist, result>>

(* ------------------ analyze_shelf_data called alone -------------------- *)
NoResult == [raised |-> FALSE, occupied |-> FALSE, fill_percent |-> Rat(0 - 1, 1)]
Analyze ==
    /\ pc = "analyze"
    /\ result' = analyze_shelf_data(in_shelf, in_dist)
    /\ pc' = "analyzed"
    /\ UNCHANGED <<remote, products, remote_log, call, sensor_data, clock, last, rows,
                   in_shelf, in_dist>>

(* ----------------------- iot_mqtt.py: the table ------------------------ *)
\* mutant: the clock rounded to the nearest second
strftime_rounded(t) == (t + TicksPerSecond \div 2) \div TicksPerSecond

\* strftime('%Y-%m-%d %H:%M:%S'): the clock truncated to whole seconds
strftime(t) == t \div TicksPerSecond

Row(shelf_id, distance_cm, occupied, fill_percent, timestamp) ==
    [shelf_id |-> shelf_id, distance_cm |-> distance_cm, occupied |-> occupied,
     fill_percent |-> fill_percent, timestamp |-> timestamp]

\* a bound value as column shelf_id TEXT stores it (SQLite's TEXT affinity)
TextOf(v) == IF v.t = "str" THEN v.s ELSE ToString(v.n)

\* the INSERT of lines 125-129 fails on a NULL in a NOT NULL column, or when the
\* database cannot be opened or written (db_ok false)
InsertFails(shelf_id, db_ok) == shelf_id.t = "null" \/ ~db_ok

\* mutant: INSERT OR REPLACE on a table keyed by shelf: the shelf's older rows go
save_to_database_replace(table, shelf_id, distance_cm, occupied, fill_percent, now, db_ok) ==
    IF InsertFails(shelf_id, db_ok)
    THEN [ok |-> FALSE, table |-> table]
    ELSE [ok |-> TRUE,
          table |-> Append(SelectSeq(table, LAMBDA r : r.shelf_id /= TextOf(shelf_id)),
                           Row(TextOf(shelf_id), NumOf(distance_cm),
                               IF occupied THEN 1 ELSE 0, fill_percent, strftime(now)))]

\* lines 116-136; `now` is the clock read at line 123
save_to_database(table, shelf_id, distance_cm, occupied, fill_percent, now, db_ok) ==
    IF InsertFails(shelf_id, db_ok)
    THEN [ok |-> FALSE, table |-> table]
    ELSE [ok |-> TRUE,
          table |-> Append(table, Row(TextOf(shelf_id), NumOf(distance_cm),
                                      IF occupied THEN 1 ELSE 0, fill_percent,
                                      strftime(now)))]

(* ---------------------- iot_mqtt.py: the handlers ---------------------- *)
TOPIC_SENSOR == "shelf/sensor"
TOPIC_STATUS == "shelf/status"
TOPIC_COMMAND == "shelf/command"

\* a payload: undecodable bytes, text that is not JSON, JSON that is not an
\* object, or an object with the fields the handlers read
Payload(kind, shelf_id, distance_cm, uptime_ms) ==
    [kind |-> kind, shelf_id |-> shelf_id, distance_cm |-> distance_cm,
     uptime_ms |-> uptime_ms]
Plain(kind) == Payload(kind, Missing, Missing, Missing)

Handled(table, out, save, raised) ==
    [table |-> table, out |-> out, save |-> save, raised |-> raised]

\* mutant: only the -1 of a failed sensor read is rejected
CheckDistance_OnlyMinusOne(distance_cm) ==
    IF distance_cm.t \notin {"num", "bool"} THEN "raise"
    ELSE IF NumOf(distance_cm) = (0 - 1) * Scale THEN "invalid"
    ELSE "valid"

\* `distance_cm == -1 or distance_cm < 0` (line 178): "raise", "invalid" or "valid"
CheckDistance(distance_cm) ==
    IF distance_cm.t \notin {"num", "bool"} THEN "raise"
    ELSE IF NumOf(distance_cm) = (0 - 1) * Scale \/ NumOf(distance_cm) < 0 THEN "invalid"
    ELSE "valid"

\* what lines 192-204 print once save_to_database has returned `saved`
ReportAfterSave(saved) == <<"reading", "saved">>

\* lines 168-209
handle_sensor_message(table, payload, now, db_ok) ==
    IF payload.kind = "not_json" THEN Handled(table, <<"json_error">>, "none", FALSE)
    ELSE IF payload.kind = "json_other" THEN Handled(table, <<"error">>, "none", FALSE)
    ELSE LET shelf_id == Get(payload.shelf_id, Str("N/A"))
             distance_cm == Get(payload.distance_cm, Cm(0 - 1))
             check == CheckDistance(distance_cm)
             a == analyze_shelf_data(shelf_id, distance_cm)
             s == save_to_database(table, shelf_id, distance_cm, a.occupied,
                                   a.fill_percent, now, db_ok)
         IN  IF check = "raise" THEN Handled(table, <<"error">>, "none", FALSE)
             ELSE IF check = "invalid" THEN Handled(table, <<"invalid">>, "none", FALSE)
             ELSE IF a.raised THEN Handled(table, <<"error">>, "none", FALSE)
             ELSE Handled(s.table, ReportAfterSave(s.ok),
                          IF s.ok THEN "ok" ELSE "failed", FALSE)

\* `uptime_ms / 1000` (line 223) raises TypeError unless uptime_ms is a number
UptimeRaises(uptime_ms) == uptime_ms.t \notin {"num", "bool"}

\* lines 211-231: only json.JSONDecodeError is caught
handle_status_message(table, payload) ==
    IF payload.kind = "not_json" THEN Handled(table, <<"status", "raw">>, "none", FALSE)
    ELSE IF payload.kind = "json_other" THEN Handled(table, <<"status">>, "none", TRUE)
    ELSE IF UptimeRaises(Get(payload.uptime_ms, Num(0)))
         THEN Handled(table, <<"status">>, "none", TRUE)
         ELSE Handled(table, <<"status", "uptime">>, "none", FALSE)

\* lines 157-166
on_message(table, topic, payload, now, db_ok) ==
    IF payload.kind = "bad_utf8" THEN Handled(table, <<>>, "none", TRUE)
    ELSE IF topic = TOPIC_SENSOR THEN handle_sensor_message(table, payload, now, db_ok)
    ELSE IF topic = TOPIC_STATUS THEN handle_status_message(table, payload)
    ELSE Handled(table, <<>>, "none", FALSE)

(* ------------------------ the inbound messages ------------------------- *)
UptimeValues == {Missing, Null, Str("1h"), Num(3661000)}
OtherKinds == {"bad_utf8", "not_json", "json_other"}
\* sensor objects, one or more for every path through handle_sensor_message:
\* distance missing, -1, negative, of a type that cannot be compared; a good
\* reading of a configured shelf, within and beyond the margin; shelf_id missing,
\* null, unhashable; both fields of an unexpected but accepted type
SensorObjects ==
    {Plain("object")}
    \cup {Payload("object", Str("A1"), d, Missing) :
            d \in {Cm(0 - 1), Cm(0 - 5), Str("12"), Cm(10), Cm(29)}}
    \cup {Payload("object", s, Cm(10), Missing) : s \in {Missing, Null, List}}
    \cup {Payload("object", Num(5), Bool(TRUE), Missing)}
Payloads(topic) ==
    {Plain(k) : k \in OtherKinds}
    \cup (IF topic = TOPIC_SENSOR THEN SensorObjects
          ELSE IF topic = TOPIC_STATUS
          THEN {Payload("object", Missing, Missing, u) : u \in UptimeValues}
          ELSE {Plain("object")})
Topics == {TOPIC_SENSOR, TOPIC_STATUS, TOPIC_COMMAND}

NoMessage ==
    [topic |-> "", payload |-> Plain("none"), timestamp |-> 0, out |-> <<>>,
     save |-> "none", raised |-> FALSE]

(* ----------------------- iot_mqtt.py: the script ----------------------- *)
\* line 14: `import iot_firebase_pb` runs that module's top level
ImportFirebase ==
    /\ pc = "import"
    /\ ModuleLevel("main")
    /\ UNCHANGED <<sensor_data, clock, last, rows, in_shelf, in_dist, result>>

\* lines 261-284: init_database, connect, on_connect; the loop runs with the
\* subscriptions when rc = 0, without any otherwise; a failed connect ends main
Main ==
    /\ pc = "main"
    /\ \E outcome \in {"loop", "idle", "stopped"} : pc' = outcome
    /\ UNCHANGED <<remote, products, remote_log, call, sensor_data, clock, last, rows,
                   in_shelf, in_dist, result>>

\* loop_forever delivers one message to on_message; an exception the callback
\* lets out ends loop_forever and main (lines 288-292)
OnMessage ==
    /\ pc = "loop"
    /\ \E topic \in Topics, delay \in 0..MaxDelay, db_ok \in BOOLEAN :
       \E payload \in Payloads(topic) :
          LET now == clock + delay
              h == on_message(sensor_data, topic, payload, now, db_ok)
          IN  /\ now <= MaxClock
              /\ h.save = "none" => delay = 0 /\ db_ok
              /\ Len(h.table) <= MaxRows
              /\ sensor_data' = h.table
              /\ clock' = IF h.save = "none" THEN clock ELSE now
              /\ last' = [topic |-> topic, payload |-> payload,
                          timestamp |-> strftime(clock), out |-> h.out,
                          save |-> h.save, raised |-> h.raised]
              /\ pc' = IF h.raised THEN "stopped" ELSE "loop"
    /\ rows' = <<>>
    /\ UNCHANGED <<remote, products, remote_log, call, in_shelf, in_dist, result>>

\* time passes
Tick ==
    /\ pc = "loop"
    /\ clock < MaxClock
    /\ clock' = clock + 1
    /\ UNCHANGED <<pc, remote, products, remote_log, call, sensor_data, last, rows,
                   in_shelf, in_dist, result>>

\* Ctrl+C (lines 286-287)
Interrupt ==
    /\ pc \in {"loop", "idle"}
    /\ pc' = "stopped"
    /\ UNCHANGED <<remote, products, remote_log, call, sensor_data, clock, last, rows,
                   in_shelf, in_dist, result>>

\* lines 234-258: the latest `limit` rows, of one shelf if shelf_id is given; rows
\* of equal timestamp come in an order SQL leaves open
QueryResults(table, shelf_id, limit) ==
    LET match == {i \in 1..Len(table) : ~Truthy(shelf_id) \/ table[i].shelf_id = shelf_id.s}
        k == IF limit < Cardinality(match) THEN limit ELSE Cardinality(match)
        picks == {r \in [1..k -> match] :
                    /\ \A a, b \in 1..k : a < b =>
                          /\ r[a] /= r[b]
                          /\ table[r[a]].timestamp >= table[r[b]].timestamp
                    /\ \A i \in match : (\A a \in 1..k : r[a] /= i) =>
                          \A a \in 1..k : table[i].timestamp <= table[r[a]].timestamp}
    IN  {[a \in 1..k |-> table[r[a]]] : r \in picks}

Query ==
    /\ pc = "loop"
    /\ \E shelf_id \in {Null, Str("A1")}, limit \in 1..MaxRows :
       \E r \in QueryResults(sensor_data, shelf_id, limit) : rows' = r
    /\ UNCHANGED <<pc, remote, products, remote_log, call, sensor_data, clock, last,
                   in_shelf, in_dist, result>>

(* --------------------------- specifications ---------------------------- *)
Idle ==
    /\ remote = <<>> /\ products = <<>> /\ remote_log = {}
    /\ call = [rack_id |-> Null, number |-> 0]

NoIngester ==
    /\ sensor_data = <<>> /\ clock = 0 /\ last = NoMessage /\ rows = <<>>

NoAnalysis ==
    /\ in_shelf = Null /\ in_dist = Num(0) /\ result = NoResult

DeployedProducts == <<Product(PushKey(1), Str("2"), 0), Product(PushKey(2), Str("A3"), 0)>>

\* python iot_mqtt.py, against a remote store that holds a product of rack A3
Init ==
    /\ pc = "import"
    /\ remote = DeployedProducts
    /\ products = <<>> /\ remote_log = {}
    /\ call = [rack_id |-> Null, number |-> 0]
    /\ NoIngester /\ NoAnalysis

Next == ImportFirebase \/ Main \/ OnMessage \/ Tick \/ Interrupt \/ Query

Spec == Init /\ [][Next]_vars

\* python iot_firebase_pb.py, and later calls of search_and_update
InitPatcher ==
    /\ pc = "patcher"
    /\ remote \in Collections
    /\ products = <<>> /\ remote_log = {}
    /\ call = [rack_id |-> Null, number |-> 0]
    /\ NoIngester /\ NoAnalysis

NextPatcher == RunPatcher \/ SearchAndUpdate

SpecPatcher == InitPatcher /\ [][NextPatcher]_vars

\* analyze_shelf_data on every shelf and distance of the grid
AnalyzeShelves == {Str(s) : s \in DOMAIN SHELF_CONFIG} \cup {Str("Z9")}
InitAnalyze ==
    /\ pc = "analyze"
    /\ in_shelf \in AnalyzeShelves
    /\ in_dist \in {Num(d) : d \in (0 - MinDist * Scale)..(MaxDist * Scale)}
    /\ result = NoResult
    /\ Idle /\ NoIngester

NextAnalyze == Analyze

SpecAnalyze == InitAnalyze /\ [][NextAnalyze]_vars

(* ------------------------------- claims -------------------------------- *)
Configured(v) == v.t = "str" /\ v.s \in {"A1", "A2", "B1"}
MaxDistanceOf(v) == IF v.s = "B1" THEN 20 * Scale ELSE 30 * Scale
Analyzed == pc = "analyzed" /\ Configured(in_shelf) /\ in_dist.n >= 0
\* (maxDistance - d) / maxDistance * 100 clamped to [0, 100]
ClampedFormula ==
    LET m == MaxDistanceOf(in_shelf)
        raw == Rat((m - in_dist.n) * 100, m)
    IN  IF raw.num < 0 THEN Rat(0, 1)
        ELSE IF raw.num > 100 * raw.den THEN Rat(100, 1)
        ELSE raw

C2_Occupied ==
    Analyzed => (result.occupied <=> MaxDistanceOf(in_shelf) - in_dist.n > 2 * Scale)

C2_Witness ==
    /\ Analyzed /\ in_shelf = Str("A1") /\ in_dist = Cm(28) /\ ~result.occupied

\* C3: the table is append-only: every step leaves it unchanged or appends exactly
\* one row after the rows it held, which stay as they were.
C3_AppendOnly ==
    [][\/ sensor_data' = sensor_data
       \/ /\ Len(sensor_data') = Len(sensor_data) + 1
          /\ SubSeq(sensor_data', 1, Len(sensor_data)) = sensor_data]_vars

C3_Witness ==
    /\ Len(sensor_data) = 2 /\ sensor_data[1].shelf_id = sensor_data[2].shelf_id
    /\ sensor_data[1].distance_cm /= sensor_data[2].distance_cm
    /\ Len(rows) = 2

\* C4: every persisted row has the string shelf id its message carried and a
\* numeric distance.
C4_WellFormedRows ==
    last.save = "ok" =>
        /\ last.payload.shelf_id.t = "str"
        /\ sensor_data[Len(sensor_data)].shelf_id = last.payload.shelf_id.s
        /\ sensor_data[Len(sensor_data)].distance_cm \in Int

\* C5: search_and_update(rack, n) sets the number of the first fetched product
\* whose rack_id equals rack to n and changes nothing else; without a match it
\* issues no update and leaves the remote collection as it was.
C5_SearchAndUpdate ==
    [][LET fetched == products'
           hits == {i \in 1..Len(fetched) : fetched[i].rack_id = call'.rack_id}
       IN  IF hits = {}
           THEN /\ remote' = remote
                /\ ("update" \in remote_log') = ("update" \in remote_log)
           ELSE LET first == CHOOSE i \in hits : \A j \in hits : i <= j
                IN  /\ Len(remote') = Len(remote)
                    /\ Cardinality({i \in 1..Len(remote) :
                                        remote[i].key = fetched[first].key}) = 1
                    /\ \A i \in 1..Len(remote) :
                          remote'[i] = IF remote[i].key = fetched[first].key
                                       THEN [remote[i] EXCEPT !.number = call'.number]
                                       ELSE remote[i]]_vars

C5_Witness ==
    /\ pc = "patched" /\ call = [rack_id |-> Str("2"), number |-> 5]
    /\ Len(remote) = 2 /\ remote[1].rack_id = Str("2") /\ remote[2].rack_id = Str("2")
    /\ remote[1].number = 5 /\ remote[2].number = 120

\* C6: an ingester run never authenticates to, reads from or updates the remote
\* product store, and leaves the product collection unchanged.
C6_RemoteUntouched == remote_log = {} /\ remote = DeployedProducts

\* C7 as stated: the timestamp of a persisted row is the time on_message captured
\* at receipt.
C7_Original ==
    last.save = "ok" => sensor_data[Len(sensor_data)].timestamp = last.timestamp

\* C7 amended: the timestamp of a persisted row is the wall-clock second read by
\* save_to_database at the insert, which is never before the second of receipt.
C7_InsertTime ==
    [][Len(sensor_data') > Len(sensor_data) =>
          /\ sensor_data'[Len(sensor_data')].timestamp = clock' \div TicksPerSecond
          /\ sensor_data'[Len(sensor_data')].timestamp >= clock \div TicksPerSecond]_vars

C7_Witness ==
    /\ last.save = "ok"
    /\ sensor_data[Len(sensor_data)].timestamp > last.timestamp

\* C8: a sensor message whose distance_cm is missing, -1 or any other negative
\* number leaves the table unchanged without a call of save_to_database, and no
\* persisted row has a negative distance.
InvalidDistance(m) ==
    /\ m.topic = TOPIC_SENSOR /\ m.payload.kind = "object"
    /\ \/ m.payload.distance_cm.t = "missing"
       \/ m.payload.distance_cm.t = "num" /\ m.payload.distance_cm.n < 0
C8_InvalidIgnored ==
    /\ [][InvalidDistance(last') => sensor_data' = sensor_data /\ last'.save = "none"]_vars
    /\ [](\A i \in 1..Len(sensor_data) : sensor_data[i].distance_cm >= 0)

C8_Witness ==
    /\ Len(sensor_data) = 1 /\ InvalidDistance(last)
    /\ last.payload.distance_cm = Cm(0 - 5) /\ last.out = <<"invalid">>

\* C9: on_message returns without raising for every message, so no message stops
\* the ingester.
C9_NeverRaises == ~last.raised

\* C10: the "saved" confirmation is printed only when save_to_database inserted
\* the row.
C10_SavedOnlyIfInserted ==
    (\E i \in 1..Len(last.out) : last.out[i] = "saved") => last.save = "ok"

====
